---- MODULE Spec2Model ----
(***************************************************************************)
(* A model of brainstorm/data_iterators.py: the shape validator, the       *)
(* iterators Undivided, Online and Minibatches, the decorator              *)
(* AddGaussianNoise and the progress_bar / silence generators.             *)
(*                                                                         *)
(* An array of shape (time, batch, features...) is a record                *)
(*   [hasShape, shape, vals]                                               *)
(* where vals has one entry per index of the batch dimension; the entry    *)
(* stands for the whole (time x features) column of that sample.  A named  *)
(* dataset and a batch are functions from names to arrays (a Python dict). *)
(*                                                                         *)
(* The model follows one base iterator and the decorators stacked on it:   *)
(* iters[1] is the base iterator, iters[k] for k > 1 is an                 *)
(* AddGaussianNoise whose field iter is the index of the iterator it       *)
(* wraps.  One invocation (a chain of generators) is active at a time and  *)
(* is driven by the consumer's next() calls.                               *)
(***************************************************************************)
EXTENDS Integers, Sequences, FiniteSets, TLC

\* ------------------------------------------------------------------ bounds
\* largest batch-dimension size of an input array
MaxN == 3
\* largest batch_size handed to Minibatches
MaxB == 2
\* largest number of AddGaussianNoise decorators stacked on the base iterator
MaxWrap == 2
\* largest number of invocations started in one behaviour
MaxCalls == 2

VARIABLES
    iters,      \* the constructed iterators (base iterator first)
    orig,       \* history: the dataset each iterator was constructed with
    last,       \* the last operation: its name, arguments and the
                \* exception it raised ("none" when it returned)
    call,       \* the active invocation: [target, verbose]; target 0 = none
    frames,     \* the generator frame of every iterator of the active chain
    pbar,       \* the progress generator of the active invocation
    out,        \* what the active invocation printed, one entry per print
    sent,       \* the values sent to the progress generator, in order
    produced,   \* per iterator, the batches its generator yielded, in order
    hlog,       \* the handler calls of the active invocation, in order
    ncalls      \* the number of invocations started so far

vars == <<iters, orig, last, call, frames, pbar, out, sent, produced, hlog, ncalls>>

Names == {"x", "y"}

EmptyDict == [n \in {} |-> 0]

Min(S) == CHOOSE a \in S : \A b \in S : a <= b
Max(S) == CHOOSE a \in S : \A b \in S : a >= b

RECURSIVE Prod(_)
Prod(s) == IF s = <<>> THEN 1 ELSE Head(s) * Prod(Tail(s))

RECURSIVE SumOver(_, _)
SumOver(S, f) ==
    IF S = {} THEN 0
    ELSE LET n == CHOOSE m \in S : TRUE IN f[n] + SumOver(S \ {n}, f)

\* ------------------------------------------------------------------ arrays
\* the column of sample i (0-based) of the input array called n
SampleVal(n, i) == (IF n = "x" THEN 100 ELSE 200) + 10 * i

\* a well-formed input array: shape (5, k, 2) for "x" and (5, k, 1) for "y"
ValidArr(n, k) ==
    [hasShape |-> TRUE,
     shape    |-> <<5, k, IF n = "x" THEN 2 ELSE 1>>,
     vals     |-> [i \in 1..k |-> SampleVal(n, i - 1)]]

\* an array of two dimensions only
TwoDimArr(n, k) ==
    [hasShape |-> TRUE, shape |-> <<5, k>>,
     vals |-> [i \in 1..k |-> SampleVal(n, i - 1)]]

\* an object without a shape attribute
NoShapeArr == [hasShape |-> FALSE, shape |-> <<>>, vals |-> <<>>]

ArrayChoices(n) ==
    {NoShapeArr} \cup {TwoDimArr(n, k) : k \in 0..MaxN}
                 \cup {ValidArr(n, k) : k \in 0..MaxN}

\* every input handed to a constructor: any subset of the names, each name
\* bound to a well-formed or an ill-formed array
DataSets ==
    UNION {{d \in [S -> UNION {ArrayChoices(n) : n \in Names}] :
               \A n \in S : d[n] \in ArrayChoices(n)} : S \in SUBSET Names}

\* the well-formed datasets over both names
FullDataSets == {[n \in Names |-> ValidArr(n, k)] : k \in 0..MaxN}

\* v[:, a:b]: Python clamps both ends of the slice to the batch dimension
SliceBatch(v, a, b) ==
    LET n  == v.shape[2]
        lo == IF a > n THEN n ELSE a
        hi == IF b > n THEN n ELSE b
        k  == IF hi > lo THEN hi - lo ELSE 0
    IN [hasShape |-> TRUE,
        shape    |-> [v.shape EXCEPT ![2] = k],
        vals     |-> [i \in 1..k |-> v.vals[lo + i]]]

\* ------------------------------------------------------- shape validator
\* _assert_correct_data_format: the error raised, or "none"
FormatError(named_data) ==
    IF \E n \in DOMAIN named_data :
          \/ ~named_data[n].hasShape
          \/ Len(named_data[n].shape) < 3
    THEN "IteratorValidationError"
    ELSE IF DOMAIN named_data = {}
    THEN "ValueError"
    ELSE LET nr == {named_data[n].shape[2] : n \in DOMAIN named_data}
         IN IF Min(nr) /= Max(nr) THEN "IteratorValidationError" ELSE "none"

\* _assert_correct_data_format: the value returned when nothing is raised
NrSequences(named_data) ==
    Min({named_data[n].shape[2] : n \in DOMAIN named_data})

\* ------------------------------------------------------------ constructors
\* the instance-level verbose option: None, True or False
VerboseOpts == {"None", "True", "False"}

\* every name a noise configuration may mention
Keys == Names \cup {"z"}

\* the standard deviations and the means a noise configuration may give
StdVals == {2}
MeanVals == {3}

\* the std_dict arguments over the names K
StdDicts(K) == UNION {[S -> StdVals] : S \in SUBSET K}

\* the mean_dict arguments over the names K: None, or a mapping
MeanOpts(K) ==
    {[given |-> FALSE, dict |-> EmptyDict]}
    \cup {[given |-> TRUE, dict |-> m] :
             m \in UNION {[S -> MeanVals] : S \in SUBSET K}}

\* an iterator object; a field its class does not set holds a default
Iterator(kind, names, data, nr, shuffle, verbose, bs, total, sample, inner, std, mean) ==
    [kind |-> kind, data_names |-> names, data |-> data, nr_sequences |-> nr,
     shuffle |-> shuffle, verbose |-> verbose, batch_size |-> bs,
     total_size |-> total, sample_size |-> sample,
     iter |-> inner, std_dict |-> std, mean_dict |-> mean]

\* no invocation is suspended half way: the consumer drains a generator
\* before it does anything else
Idle == IF call.target = 0 THEN TRUE ELSE frames[call.target].pc = "done"

\* sum(d.size for d in data.values())
TotalSize(d) == SumOver(DOMAIN d, [n \in DOMAIN d |-> Prod(d[n].shape)])

\* sum(d.shape[0] * np.prod(d.shape[2:]) for d in data.values())
SampleSize(d) ==
    SumOver(DOMAIN d,
            [n \in DOMAIN d |->
                d[n].shape[1] * Prod(SubSeq(d[n].shape, 3, Len(d[n].shape)))])

\* the record of an operation: a constructor with its arguments, a call
\* or a next()
Op(op, data, w, std, mean_given, mean, raised) ==
    [op |-> op, data |-> data, w |-> w, std |-> std,
     mean_given |-> mean_given, mean |-> mean, raised |-> raised]

NoCall == [target |-> 0, verbose |-> FALSE]
NoFrame == [pc |-> "none", indices |-> <<>>, i |-> 0]
NoBar == [kind |-> "none", maximum |-> 0, i |-> 0, pc |-> "created"]

\* an exhausted generator is dropped with everything recorded about it
Dropped(n) ==
    /\ call' = NoCall
    /\ frames' = [k \in 1..n |-> NoFrame]
    /\ pbar' = NoBar
    /\ out' = <<>>
    /\ sent' = <<>>
    /\ produced' = [k \in 1..n |-> <<>>]
    /\ hlog' = <<>>

\* the constructor failed: nothing is bound, the exception propagates
Fail(op) ==
    /\ last' = op
    /\ Dropped(Len(iters))
    /\ UNCHANGED <<iters, orig, ncalls>>

\* the constructor returned the object it
Bind(op, it) ==
    /\ iters' = Append(iters, it)
    /\ orig' = Append(orig, it.data)
    /\ last' = op
    /\ Dropped(Len(iters) + 1)
    /\ UNCHANGED ncalls

\* Undivided(**named_data)
NewUndivided(D) ==
    \E d \in D :
        LET op == Op("Undivided", d, 0, EmptyDict, FALSE, EmptyDict,
                     FormatError(d))
        IN /\ iters = <<>>
           /\ IF op.raised /= "none"
              THEN Fail(op)
              ELSE Bind(op, Iterator("Undivided", DOMAIN d, d, 0, FALSE,
                                     "None", 0, TotalSize(d), 0, 0,
                                     EmptyDict, EmptyDict))

\* Online(shuffle, verbose, seed, **named_data)
NewOnline(D, SH, VB) ==
    \E d \in D, shuffle \in SH, verbose \in VB :
        LET op == Op("Online", d, 0, EmptyDict, FALSE, EmptyDict,
                     FormatError(d))
        IN /\ iters = <<>>
           /\ IF op.raised /= "none"
              THEN Fail(op)
              ELSE Bind(op, Iterator("Online", DOMAIN d, d, NrSequences(d),
                                     shuffle, verbose, 0, 0, SampleSize(d),
                                     0, EmptyDict, EmptyDict))

\* Minibatches(batch_size, shuffle, verbose, seed, **named_data)
NewMinibatches(D, SH, VB, BS) ==
    \E d \in D, shuffle \in SH, verbose \in VB, batch_size \in BS :
        LET op == Op("Minibatches", d, 0, EmptyDict, FALSE, EmptyDict,
                     FormatError(d))
        IN /\ iters = <<>>
           /\ IF op.raised /= "none"
              THEN Fail(op)
              ELSE Bind(op, Iterator("Minibatches", DOMAIN d, d,
                                     NrSequences(d), shuffle, verbose,
                                     batch_size, 0,
                                     SampleSize(d) * batch_size, 0,
                                     EmptyDict, EmptyDict))

\* whether the object has an attribute data (DataIterator.__init__ sets
\* data_names only; Undivided, Online and Minibatches set data)
HasData(it) == it.kind /= "AddGaussianNoise"

\* the means only required to be among the standard deviations
NoiseInitErrorSubset(it, std_dict, mean_given, mean_dict) ==
    IF mean_given /\ ~(DOMAIN mean_dict \subseteq DOMAIN std_dict)
    THEN "AssertionError"
    ELSE IF DOMAIN std_dict = {}
    THEN "none"
    ELSE IF it.kind = "AddGaussianNoise"
    THEN "AttributeError"
    ELSE IF \E key \in DOMAIN std_dict : key \notin DOMAIN it.data
    THEN "AssertionError"
    ELSE "none"

\* AddGaussianNoise.__init__: the error raised, or "none".  mean_given is
\* FALSE when mean_dict is None.  Assertions are enabled (the interpreter's
\* default).
NoiseInitError(it, std_dict, mean_given, mean_dict) ==
    IF mean_given /\ DOMAIN mean_dict /= DOMAIN std_dict
    THEN "AssertionError"
    ELSE IF DOMAIN std_dict = {}
    THEN "none"
    ELSE IF ~HasData(it)
    THEN "AttributeError"
    ELSE IF \E key \in DOMAIN std_dict : key \notin DOMAIN it.data
    THEN "AssertionError"
    ELSE "none"

\* AddGaussianNoise(iter, std_dict, mean_dict=None) on the newest iterator
NewAddGaussianNoise(SD, MD) ==
    \E std_dict \in SD, m \in MD :
        LET w  == Len(iters)
            op == Op("AddGaussianNoise", EmptyDict, w, std_dict, m.given,
                     m.dict,
                     NoiseInitError(iters[w], std_dict, m.given, m.dict))
        IN /\ Idle
           /\ iters /= <<>>
           /\ Len(iters) <= MaxWrap
           /\ IF op.raised /= "none"
              THEN Fail(op)
              ELSE Bind(op, Iterator("AddGaussianNoise", iters[w].data_names,
                                     EmptyDict, 0, FALSE, "None", 0, 0, 0, w,
                                     std_dict,
                                     IF m.given THEN m.dict ELSE EmptyDict))

\* ------------------------------------------------------- progress reporter
\* the default bar of progress_bar, one character per entry
Bar ==
    << "=", "=", "=", "=", "1", "=", "=", "=", "=", "2",
       "=", "=", "=", "=", "3", "=", "=", "=", "=", "4",
       "=", "=", "=", "=", "5", "=", "=", "=", "=", "6",
       "=", "=", "=", "=", "7", "=", "=", "=", "=", "8",
       "=", "=", "=", "=", "9", "=", "=", "=", "=", "0" >>

\* the default prefix
Prefix == << "[" >>

\* the default suffix, formatted: the elapsed time is one opaque token
Suffix == << "]", " ", "T", "o", "o", "k", ":", " ", "<elapsed>", "\n" >>

\* bar[i: j] for 0 <= i
BarSlice(i, j) ==
    LET hi == IF j > Len(Bar) THEN Len(Bar) ELSE j
    IN IF i >= hi THEN <<>> ELSE SubSeq(Bar, i + 1, hi)

\* the quotient taken as an integer division before the multiplication
BarFillIntDiv(progress, maximum) == (progress \div maximum) * Len(Bar)

\* math.trunc(progress / maximum * len(bar)) for maximum > 0.  The quotient
\* is computed in floating point; for every progress below 23 and every
\* maximum below 40 the result is the exact floor (the first difference is at
\* progress 23, maximum 5).
BarFill(progress, maximum) == (progress * Len(Bar)) \div maximum

\* progress_bar(maximum) or silence(): the generator object, not yet started
NewBar(verbose, maximum) ==
    [kind |-> IF verbose THEN "bar" ELSE "silence",
     maximum |-> maximum, i |-> 0, pc |-> "created"]

\* next(p_bar): [pb, text, err]
BarNext(pb) ==
    IF pb.kind = "silence"
    THEN [pb |-> [pb EXCEPT !.pc = "loop"], text |-> <<>>, err |-> "none"]
    ELSE [pb |-> [pb EXCEPT !.pc = "loop", !.i = 0], text |-> Prefix,
          err |-> "none"]

\* p_bar.send(progress): [pb, text, err]
BarSend(pb, progress) ==
    IF pb.kind = "silence"
    THEN [pb |-> pb, text |-> <<>>, err |-> "none"]
    ELSE IF pb.pc /= "loop"
    THEN \* resumed at the last yield: the generator returns
         [pb |-> [pb EXCEPT !.pc = "finished"], text |-> <<>>,
          err |-> "StopIteration"]
    ELSE IF pb.maximum = 0
    THEN [pb |-> [pb EXCEPT !.pc = "finished"], text |-> <<>>,
          err |-> "ZeroDivisionError"]
    ELSE LET j == BarFill(progress, pb.maximum)
             o == BarSlice(pb.i, j)
         IN IF j < Len(Bar)
            THEN [pb |-> [pb EXCEPT !.i = j], text |-> o, err |-> "none"]
            ELSE [pb |-> [pb EXCEPT !.i = j, !.pc = "final"],
                  text |-> o \o Suffix, err |-> "none"]

\* (self.verbose is None and verbose) or self.verbose
EffectiveVerbose(self_verbose, verbose) ==
    IF self_verbose = "None" THEN verbose ELSE self_verbose = "True"

\* ------------------------------------------------------------ the handler
\* the standard normal draws the handler's generator may produce
ZVals == {-1, 1}

\* handler.zeros(shape)
Zeros(shape) ==
    [hasShape |-> TRUE, shape |-> shape, vals |-> [i \in 1..shape[2] |-> 0]]

\* handler.fill_gaussian(mean, std, out): the arrays out may hold afterwards
FillGaussian(mean, std, o) ==
    {[o EXCEPT !.vals = [i \in DOMAIN o.vals |-> mean + std * z]] : z \in ZVals}

\* handler.add_tt(a, b, out): the array out holds afterwards
AddTT(a, b) ==
    [hasShape |-> TRUE, shape |-> b.shape,
     vals |-> [i \in DOMAIN b.vals |-> a.vals[i] + b.vals[i]]]

\* rnd.shuffle(indices): the orders np.arange(n) may be left in
Shuffles(n) ==
    {p \in [1..n -> 0..(n - 1)] : \A a, b \in 1..n : p[a] = p[b] => a = b}

\* np.arange(n)
Arange(n) == [k \in 1..n |-> k - 1]

\* -------------------------------------------------------------- generators
\* The world a generator acts on.
World == [iters |-> iters, frames |-> frames, pbar |-> pbar, out |-> out,
          sent |-> sent, produced |-> produced, hlog |-> hlog]

\* what a next() on a generator ends with
Yield(batch, alias) ==
    [kind |-> "yield", batch |-> batch, alias |-> alias, err |-> "none"]
Stop == [kind |-> "stop", batch |-> EmptyDict, alias |-> 0, err |-> "none"]
Raise(err) == [kind |-> "raise", batch |-> EmptyDict, alias |-> 0, err |-> err]

\* the generator of iterator id yields batch
Yields(W, id, fr, batch, alias) ==
    [w |-> [W EXCEPT !.frames[id] = fr,
                     !.produced[id] = Append(@, batch)],
     res |-> Yield(batch, alias)]

\* the generator of iterator id ends, by return or by an exception
Ends(W, id, res) ==
    [w |-> [W EXCEPT !.frames[id].pc = "done"], res |-> res]

\* Undivided.__call__: yield self.data, the iterator's own dict
UndividedNext(W, id) ==
    IF W.frames[id].pc = "created"
    THEN {Yields(W, id, [W.frames[id] EXCEPT !.pc = "yielded"],
                 W.iters[id].data, id)}
    ELSE {Ends(W, id, Stop)}

\* a slice one index too wide
OnlineBatchWide(it, idx) ==
    [k \in DOMAIN it.data |-> SliceBatch(it.data[k], idx, idx + 2)]

\* Online.__call__: data = {k: v[:, idx: idx + 1] ...}
OnlineBatch(it, idx) ==
    [k \in DOMAIN it.data |-> SliceBatch(it.data[k], idx, idx + 1)]

\* a chunk that starts at idx instead of idx * batch_size
MinibatchesBatchUnscaled(it, idx) ==
    [k \in DOMAIN it.data |->
        SliceBatch(it.data[k], idx, idx + it.batch_size)]

\* Minibatches.__call__: data = {k: v[chunk] ...}
MinibatchesBatch(it, idx) ==
    [k \in DOMAIN it.data |->
        SliceBatch(it.data[k], idx * it.batch_size, (idx + 1) * it.batch_size)]

\* Online.__call__: the value sent after the batch at position i of indices
OnlineProgress(it, i) == i + 1

\* Minibatches.__call__: the value sent after the batch at position i
MinibatchesProgress(it, i) == (i + 1) * it.batch_size

\* the number of entries of indices
OnlineCount(it) == it.nr_sequences

\* the quotient rounded down instead of up
MinibatchesCountFloor(it) == it.nr_sequences \div it.batch_size

\* int(math.ceil(self.nr_sequences / self.batch_size))
MinibatchesCount(it) ==
    (it.nr_sequences + it.batch_size - 1) \div it.batch_size

BatchOf(it, idx) ==
    IF it.kind = "Online" THEN OnlineBatch(it, idx)
    ELSE MinibatchesBatch(it, idx)

ProgressOf(it, i) ==
    IF it.kind = "Online" THEN OnlineProgress(it, i)
    ELSE MinibatchesProgress(it, i)

CountOf(it) ==
    IF it.kind = "Online" THEN OnlineCount(it) ELSE MinibatchesCount(it)

\* the for loop of Online.__call__ and Minibatches.__call__ at position i
\* (0-based) of indices: yield the next batch or return
LoopFrom(W, id, indices, i) ==
    IF i < Len(indices)
    THEN Yields(W, id, [pc |-> "yielded", indices |-> indices, i |-> i],
                BatchOf(W.iters[id], indices[i + 1]), 0)
    ELSE Ends(W, id, Stop)

\* Online.__call__ and Minibatches.__call__, one next() of the generator
SlicingNext(W, id, verbose) ==
    LET it == W.iters[id]
        fr == W.frames[id]
    IN IF fr.pc = "created"
       THEN LET b  == BarNext(NewBar(EffectiveVerbose(it.verbose, verbose),
                                     it.nr_sequences))
                W1 == [W EXCEPT !.pbar = b.pb, !.out = Append(@, b.text)]
            IN {LoopFrom(W1, id, indices, 0) :
                    indices \in IF it.shuffle THEN Shuffles(CountOf(it))
                                ELSE {Arange(CountOf(it))}}
       ELSE LET progress == ProgressOf(it, fr.i)
                b  == BarSend(W.pbar, progress)
                W1 == [W EXCEPT !.pbar = b.pb, !.sent = Append(@, progress)]
            IN IF b.err /= "none"
               THEN {Ends(W1, id, Raise(b.err))}
               ELSE {LoopFrom([W1 EXCEPT !.out = Append(@, b.text)], id,
                              fr.indices, fr.i + 1)}

\* the configured mean ignored
NoiseMeanZero(it, key) == 0

\* self.mean_dict.get(key, 0.0)
NoiseMean(it, key) ==
    IF key \in DOMAIN it.mean_dict THEN it.mean_dict[key] ELSE 0

\* AddGaussianNoise.__call__, the body of the outer for loop: the batch data
\* of the wrapped generator (the dict of iterator alias when alias > 0) gets
\* every configured entry replaced
NoiseBody(W, id, data, alias) ==
    LET it   == W.iters[id]
        keys == DOMAIN it.std_dict
        mean(key) == NoiseMean(it, key)
        draws(key) == FillGaussian(mean(key), it.std_dict[key],
                                   Zeros(data[key].shape))
    IN IF \E key \in keys : key \notin DOMAIN data
       THEN {Ends(W, id, Raise("KeyError"))}
       ELSE {LET new == [n \in DOMAIN data |->
                            IF n \in keys THEN AddTT(data[n], noise[n])
                            ELSE data[n]]
                 W1  == [W EXCEPT
                           !.iters = IF alias = 0 THEN @
                                     ELSE [@ EXCEPT ![alias].data = new],
                           !.hlog = Append(@,
                               [id |-> id,
                                fills |-> [key \in keys |->
                                    [mean |-> mean(key),
                                     std |-> it.std_dict[key],
                                     shape |-> data[key].shape,
                                     noise |-> noise[key]]]])]
             IN Yields(W1, id, [W.frames[id] EXCEPT !.pc = "yielded"],
                       new, alias) :
             noise \in {f \in [keys -> UNION {draws(key) : key \in keys}] :
                           \A key \in keys : f[key] \in draws(key)}}

RECURSIVE Pull(_, _, _)
\* one next() on the generator of iterator id: every way it may end
Pull(W, id, verbose) ==
    LET it == W.iters[id]
    IN IF it.kind = "Undivided" THEN UndividedNext(W, id)
       ELSE IF it.kind /= "AddGaussianNoise" THEN SlicingNext(W, id, verbose)
       ELSE \* for data in self.iter(handler, verbose=verbose): ...
            LET W0 == IF W.frames[id].pc = "created"
                      THEN [W EXCEPT !.frames[it.iter].pc = "created"]
                      ELSE W
            IN UNION {IF o.res.kind = "yield"
                      THEN NoiseBody(o.w, id, o.res.batch, o.res.alias)
                      ELSE {Ends(o.w, id, o.res)} :
                      o \in Pull(W0, it.iter, verbose)}

\* ----------------------------------------------------------------- actions
\* iterator(handler, verbose): the generator object is created, none of its
\* code runs yet
Call(VS) ==
    \E t \in 1..Len(iters), verbose \in VS :
        /\ Idle
        /\ ncalls < MaxCalls
        /\ call' = [target |-> t, verbose |-> verbose]
        /\ frames' = [k \in 1..Len(iters) |->
                        IF k = t THEN [NoFrame EXCEPT !.pc = "created"]
                        ELSE NoFrame]
        /\ pbar' = NoBar
        /\ out' = <<>>
        /\ sent' = <<>>
        /\ produced' = [k \in 1..Len(iters) |-> <<>>]
        /\ hlog' = <<>>
        /\ ncalls' = ncalls + 1
        /\ last' = Op("call", EmptyDict, t, EmptyDict, FALSE, EmptyDict, "none")
        /\ UNCHANGED <<iters, orig>>

\* the consumer's next() on the generator of the active invocation
ConsumerNext ==
    /\ call.target /= 0
    /\ frames[call.target].pc \in {"created", "yielded"}
    /\ \E o \in Pull(World, call.target, call.verbose) :
        /\ iters' = o.w.iters
        /\ frames' = o.w.frames
        /\ pbar' = o.w.pbar
        /\ out' = o.w.out
        /\ sent' = o.w.sent
        /\ produced' = o.w.produced
        /\ hlog' = o.w.hlog
        /\ last' = Op("next", EmptyDict, call.target, EmptyDict, FALSE,
                      EmptyDict, o.res.err)
    /\ UNCHANGED <<orig, call, ncalls>>

Init ==
    /\ iters = <<>>
    /\ orig = <<>>
    /\ last = Op("none", EmptyDict, 0, EmptyDict, FALSE, EmptyDict, "none")
    /\ call = NoCall
    /\ frames = <<>>
    /\ pbar = NoBar
    /\ out = <<>>
    /\ sent = <<>>
    /\ produced = <<>>
    /\ hlog = <<>>
    /\ ncalls = 0

\* the base iterators on every dataset, every shuffle and verbose setting
Next ==
    \/ NewUndivided(DataSets)
    \/ NewOnline(DataSets, BOOLEAN, VerboseOpts)
    \/ NewMinibatches(DataSets, BOOLEAN, VerboseOpts, 1..MaxB)
    \/ Call(BOOLEAN)
    \/ ConsumerNext

Spec == Init /\ [][Next]_vars

\* the base iterators on the well-formed datasets, unshuffled and silent,
\* and the decorators stacked on them, configured over the names of the
\* datasets and a name no dataset has
NextNoise ==
    \/ NewUndivided(FullDataSets)
    \/ NewOnline(FullDataSets, {FALSE}, {"None"})
    \/ NewMinibatches(FullDataSets, {FALSE}, {"None"}, {MaxB})
    \/ NewAddGaussianNoise(StdDicts(Keys), MeanOpts(Names))
    \/ Call({FALSE})
    \/ ConsumerNext

SpecNoise == Init /\ [][NextNoise]_vars

\* ------------------------------------------------------------------ claims
\* the base iterator, the dataset it was constructed with and its size
Base == iters[1]
BaseData == orig[1]
BaseN == NrSequences(orig[1])

\* the active invocation is of the base iterator of kind kind
Invoked(kind) ==
    /\ iters /= <<>>
    /\ call.target = 1
    /\ iters[1].kind = kind

\* the generator of the active invocation is exhausted
Exhausted == frames[call.target].pc = "done"

\* the batches the consumer received from the active invocation
Yielded == produced[call.target]

CeilDiv(a, b) == (a + b - 1) \div b

\* the samples lo+1..hi (1-based, in order) of the input array a
Samples(a, lo, hi) ==
    [hasShape |-> TRUE,
     shape    |-> [a.shape EXCEPT ![2] = hi - lo],
     vals     |-> [i \in 1..(hi - lo) |-> a.vals[lo + i]]]

\* the batch dimension sizes of the arrays of a batch
Sizes(batch) == {batch[n].shape[2] : n \in DOMAIN batch}

RECURSIVE Concat(_)
Concat(ss) == IF ss = <<>> THEN <<>> ELSE Head(ss) \o Concat(Tail(ss))

\* the indices idx of which the k-th batch is the slice idx..idx+1
OnlineIdx(k) ==
    {idx \in 0..(BaseN - 1) :
        Yielded[k] = [n \in DOMAIN BaseData |->
                         Samples(BaseData[n], idx, idx + 1)]}

\* C1: an invocation of Online consumed to exhaustion ended without an
\* exception and yielded exactly N batches; every batch is the slice
\* idx..idx+1 (batch dimension size 1) of every named array for some index
\* idx; every index of 0..N-1 is covered by exactly one batch; with shuffle
\* disabled the k-th batch is the slice of index k-1.
C1_OnlineCoversEveryIndexOnce ==
    (Invoked("Online") /\ Exhausted) =>
        /\ last.raised = "none"
        /\ Len(Yielded) = BaseN
        /\ \A k \in 1..Len(Yielded) :
              /\ OnlineIdx(k) /= {}
              /\ Sizes(Yielded[k]) = {1}
        /\ \A idx \in 0..(BaseN - 1) :
              Cardinality({k \in 1..Len(Yielded) : idx \in OnlineIdx(k)}) = 1
        /\ ~Base.shuffle => \A k \in 1..Len(Yielded) : (k - 1) \in OnlineIdx(k)

\* a shuffled invocation of Online over several samples, consumed to
\* exhaustion, that did not start with index 0
C1_Witness ==
    /\ Invoked("Online") /\ Exhausted
    /\ Base.shuffle
    /\ BaseN >= 2
    /\ Len(Yielded) = BaseN
    /\ 0 \notin OnlineIdx(1)

\* the chunk indices c of which the k-th batch is the range
\* [c*B, min((c+1)*B, N))
ChunkIdx(k) ==
    {c \in 0..(CeilDiv(BaseN, Base.batch_size) - 1) :
        Yielded[k] =
            [n \in DOMAIN BaseData |->
                Samples(BaseData[n], c * Base.batch_size,
                        Min({(c + 1) * Base.batch_size, BaseN}))]}

\* the size of the last chunk: N - B*(ceil(N/B)-1)
LastChunkSize ==
    BaseN - Base.batch_size * (CeilDiv(BaseN, Base.batch_size) - 1)

\* the batches concatenated along the batch dimension, for the name n
Concatenated(n) ==
    Concat([k \in 1..Len(Yielded) |-> Yielded[k][n].vals])

\* C2 as stated: an invocation of Minibatches consumed to exhaustion yielded
\* ceil(N/B) batches, the last batch yielded has batch dimension size
\* N - B*(ceil(N/B)-1), and with shuffle disabled the batches concatenated in
\* yield order are the original arrays.
C2_LastYieldedIsShort ==
    (Invoked("Minibatches") /\ Exhausted) =>
        /\ Len(Yielded) = CeilDiv(BaseN, Base.batch_size)
        /\ Len(Yielded) > 0 => Sizes(Yielded[Len(Yielded)]) = {LastChunkSize}
        /\ ~Base.shuffle =>
              \A n \in DOMAIN BaseData : Concatenated(n) = BaseData[n].vals

\* C2 amended: an invocation of Minibatches consumed to exhaustion ended
\* without an exception and yielded ceil(N/B) batches; the batch of the last
\* chunk (the one holding sample N-1) has size N - B*(ceil(N/B)-1), at most B,
\* and every other batch has size B; with shuffle disabled the batch of the
\* last chunk is the last one yielded and the batches concatenated in yield
\* order are the original arrays.
C2_LastChunkIsShort ==
    (Invoked("Minibatches") /\ Exhausted) =>
        LET cnt == CeilDiv(BaseN, Base.batch_size)
        IN /\ last.raised = "none"
           /\ Len(Yielded) = cnt
           /\ \A k \in 1..Len(Yielded) :
                 Sizes(Yielded[k]) =
                     IF (cnt - 1) \in ChunkIdx(k) THEN {LastChunkSize}
                     ELSE {Base.batch_size}
           /\ cnt > 0 =>
                 /\ LastChunkSize <= Base.batch_size
                 /\ \E k \in 1..Len(Yielded) : (cnt - 1) \in ChunkIdx(k)
           /\ ~Base.shuffle =>
                 /\ cnt > 0 => (cnt - 1) \in ChunkIdx(Len(Yielded))
                 /\ \A n \in DOMAIN BaseData :
                       Concatenated(n) = BaseData[n].vals

\* a shuffled invocation of Minibatches, consumed to exhaustion, whose last
\* chunk is shorter than the others and was yielded first
C2_Witness ==
    /\ Invoked("Minibatches") /\ Exhausted
    /\ Base.shuffle
    /\ Len(Yielded) >= 2
    /\ LastChunkSize < Base.batch_size
    /\ Sizes(Yielded[1]) = {LastChunkSize}
    /\ Sizes(Yielded[Len(Yielded)]) = {Base.batch_size}

\* C3: in an invocation of Minibatches with shuffle enabled every batch
\* yielded is the contiguous range [c*B, min((c+1)*B, N)) of every named
\* array, in the original order, for some chunk index c; no chunk index is
\* yielded twice; once the invocation is exhausted every chunk index of
\* 0..ceil(N/B)-1 was yielded, so every sample is in exactly one batch.
C3_ShufflePermutesChunksOnly ==
    (Invoked("Minibatches") /\ Base.shuffle) =>
        LET cnt == CeilDiv(BaseN, Base.batch_size)
        IN /\ \A k \in 1..Len(Yielded) : ChunkIdx(k) /= {}
           /\ \A c \in 0..(cnt - 1) :
                 Cardinality({k \in 1..Len(Yielded) : c \in ChunkIdx(k)}) <= 1
           /\ Exhausted =>
                 /\ \A c \in 0..(cnt - 1) :
                       \E k \in 1..Len(Yielded) : c \in ChunkIdx(k)
                 /\ \A n \in DOMAIN BaseData : \A i \in 1..BaseN :
                       Cardinality({<<k, j>> \in
                                      (1..Len(Yielded)) \X (1..Base.batch_size) :
                                        /\ j <= Len(Yielded[k][n].vals)
                                        /\ Yielded[k][n].vals[j] =
                                              BaseData[n].vals[i]}) = 1

\* a shuffled invocation of Minibatches over several chunks, consumed to
\* exhaustion, that did not start with chunk 0
C3_Witness ==
    /\ Invoked("Minibatches") /\ Exhausted
    /\ Base.shuffle
    /\ Len(Yielded) >= 2
    /\ 0 \notin ChunkIdx(1)

\* the number of samples in the first k batches yielded
RECURSIVE Consumed(_)
Consumed(k) ==
    IF k = 0 THEN 0
    ELSE Consumed(k - 1)
         + Max({Yielded[k][n].shape[2] : n \in DOMAIN Yielded[k]})

\* C9 as stated: in an invocation of Minibatches the value sent to the
\* progress reporter after the k-th batch is the number of samples in the k
\* batches yielded so far, and never exceeds N.
C9_ProgressCountsSamples ==
    Invoked("Minibatches") =>
        \A k \in 1..Len(sent) :
            /\ sent[k] = Consumed(k)
            /\ sent[k] <= BaseN

\* the number of batches a complete invocation of the base iterator yields
Batches ==
    IF Base.kind = "Online" THEN BaseN
    ELSE CeilDiv(BaseN, Base.batch_size)

\* C10: in a verbose invocation of Online or Minibatches over N >= 1 samples
\* the first print is the prefix; there is one more print per value sent, one
\* value is sent after each batch consumed; the prints so far, concatenated,
\* are the prefix and the initial part of the bar in proportion of the last
\* value sent to N (at most the whole bar), followed by the suffix exactly
\* when the value after the last batch has been sent, and exactly then the
\* part is the whole bar; the reporter never raises, so it is never resumed
\* after it finished.
C10_BarThenSuffixOnce ==
    ((Invoked("Online") \/ Invoked("Minibatches")) /\ pbar.kind = "bar"
        /\ BaseN >= 1) =>
        /\ last.raised = "none"
        /\ pbar.pc /= "finished"
        /\ Len(out) = 1 + Len(sent)
        /\ out[1] = Prefix
        /\ Len(sent) = IF Exhausted THEN Batches ELSE Len(Yielded) - 1
        /\ LET m == IF sent = <<>> THEN 0
                     ELSE Min({Len(Bar),
                               (sent[Len(sent)] * Len(Bar)) \div BaseN})
           IN /\ Concat(out) = Prefix \o SubSeq(Bar, 1, m)
                                  \o (IF Len(sent) = Batches THEN Suffix
                                      ELSE <<>>)
              /\ Len(sent) = Batches <=> m = Len(Bar)
        /\ \A k \in 1..Len(sent) :
              (\E a \in 1..Len(out[k + 1]) : out[k + 1][a] = "<elapsed>")
                  <=> k = Batches

\* a verbose invocation of Minibatches, consumed to exhaustion, whose last
\* chunk is shorter than the batch size
C10_Witness ==
    /\ Invoked("Minibatches") /\ Exhausted
    /\ pbar.kind = "bar"
    /\ BaseN >= 2
    /\ LastChunkSize < Base.batch_size
    /\ Concat(out) = Prefix \o Bar \o Suffix

\* C8 as stated: the validator returns the common batch dimension size when
\* every array has a shape of at least 3 dimensions and all batch dimension
\* sizes are equal, and raises a validation error otherwise; no constructor
\* of a base iterator ends in any other way.
C8_ValidatorHasTwoOutcomes ==
    (last.op \in {"Undivided", "Online", "Minibatches"}) =>
        LET d == last.data
        IN IF /\ \A n \in DOMAIN d : d[n].hasShape /\ Len(d[n].shape) >= 3
              /\ \A n, m \in DOMAIN d : d[n].shape[2] = d[m].shape[2]
           THEN /\ last.raised = "none"
                /\ Len(iters) = 1
                /\ iters[1].kind /= "Undivided" =>
                      \A n \in DOMAIN d : iters[1].nr_sequences = d[n].shape[2]
           ELSE /\ last.raised = "IteratorValidationError"
                /\ iters = <<>>

\* the iterators that are decorators
Decorators == {id \in 1..Len(iters) : iters[id].kind = "AddGaussianNoise"}

\* the handler calls the generator of decorator id made, one entry per batch
FillsOf(id) ==
    LET IsOfId(e) == e.id = id IN SelectSeq(hlog, IsOfId)

\* C4 as stated: every iterator's dataset is the dataset it was constructed
\* with, and an invocation of Undivided consumed to exhaustion yielded
\* exactly one batch, equal to the original input.
C4_DatasetsKeepTheirValue ==
    /\ \A id \in 1..Len(iters) : iters[id].data = orig[id]
    /\ (Invoked("Undivided") /\ Exhausted) => Yielded = <<BaseData>>

\* C5: the generator of an AddGaussianNoise yields one batch for every batch
\* of the generator it wraps, in the same order and with the same names, and
\* ends when that one ends, without an exception; in each batch every name
\* of std_dict maps to the wrapped generator's array plus a noise array the
\* handler filled for the configured mean (0 when none is configured) and
\* standard deviation, of the shape of that array; every other name maps to
\* the array the wrapped generator produced.
C5_NoiseOnConfiguredNamesOnly ==
    \A id \in Decorators :
        frames[id].pc /= "none" =>
            LET it    == iters[id]
                inner == it.iter
                fills == FillsOf(id)
            IN /\ last.op = "next" => last.raised = "none"
               /\ Len(produced[id]) = Len(produced[inner])
               /\ Len(fills) = Len(produced[id])
               /\ frames[id].pc = "done" <=> frames[inner].pc = "done"
               /\ \A k \in 1..Len(produced[id]) :
                     LET i == produced[inner][k]
                         o == produced[id][k]
                         f == fills[k].fills
                     IN /\ DOMAIN o = DOMAIN i
                        /\ DOMAIN f = DOMAIN it.std_dict
                        /\ \A n \in DOMAIN o \ DOMAIN it.std_dict : o[n] = i[n]
                        /\ \A n \in DOMAIN it.std_dict :
                              /\ n \in DOMAIN o
                              /\ f[n].mean = (IF n \in DOMAIN it.mean_dict
                                              THEN it.mean_dict[n] ELSE 0)
                              /\ f[n].std = it.std_dict[n]
                              /\ f[n].shape = i[n].shape
                              /\ f[n].noise.shape = i[n].shape
                              /\ \E z \in ZVals : \A j \in DOMAIN f[n].noise.vals :
                                    f[n].noise.vals[j] = f[n].mean + f[n].std * z
                              /\ o[n].shape = i[n].shape
                              /\ DOMAIN o[n].vals = DOMAIN i[n].vals
                              /\ \A j \in DOMAIN o[n].vals :
                                    o[n].vals[j] = i[n].vals[j] + f[n].noise.vals[j]

\* an invocation of a decorator with a configured mean that leaves "y"
\* alone, wrapped around a generator of several batches, consumed to
\* exhaustion
C5_Witness ==
    /\ call.target = 2
    /\ Exhausted
    /\ DOMAIN iters[2].std_dict = {"x"}
    /\ DOMAIN iters[2].mean_dict = {"x"}
    /\ Len(produced[2]) >= 2
    /\ produced[2][2]["x"] /= produced[1][2]["x"]
    /\ produced[2][2]["y"] = produced[1][2]["y"]

\* C6 as stated: a construction with a mean mapping whose names are all
\* among the names of std_dict succeeds (the wrapped iterator owning a
\* dataset that has every name of std_dict).
C6_StdOnlyNamesAllowed ==
    (/\ last.op = "AddGaussianNoise"
     /\ last.mean_given
     /\ DOMAIN last.mean \subseteq DOMAIN last.std
     /\ HasData(iters[last.w])
     /\ DOMAIN last.std \subseteq iters[last.w].data_names)
        => last.raised = "none"

\* C6 amended: a construction with a mean mapping whose names are not
\* exactly the names of std_dict fails with an AssertionError and constructs
\* nothing; so every decorator has a mean for each name of std_dict or no
\* mean at all, and the noise of a name has mean 0 exactly when the
\* decorator was given no mean (None, or the empty mapping with the empty
\* std_dict).
C6_MeanNamesEqualStdNames ==
    /\ (/\ last.op = "AddGaussianNoise"
        /\ last.mean_given
        /\ DOMAIN last.mean /= DOMAIN last.std)
          => /\ last.raised = "AssertionError"
             /\ Len(iters) = last.w
    /\ (last.op = "AddGaussianNoise" /\ last.raised = "none")
          => /\ Len(iters) = last.w + 1
             /\ iters[Len(iters)].std_dict = last.std
             /\ iters[Len(iters)].mean_dict =
                   IF last.mean_given THEN last.mean ELSE EmptyDict
    /\ \A id \in Decorators :
          \/ DOMAIN iters[id].mean_dict = DOMAIN iters[id].std_dict
          \/ DOMAIN iters[id].mean_dict = {}
    /\ \A k \in 1..Len(hlog) : \A n \in DOMAIN hlog[k].fills :
          hlog[k].fills[n].mean =
              IF DOMAIN iters[hlog[k].id].mean_dict = {} THEN 0
              ELSE iters[hlog[k].id].mean_dict[n]

\* a construction with a mean for "x" and standard deviations for "x" and
\* "y", around a base iterator, that failed
C6_Witness ==
    /\ last.op = "AddGaussianNoise"
    /\ last.mean_given
    /\ DOMAIN last.mean = {"x"}
    /\ DOMAIN last.std = {"x", "y"}
    /\ last.w = 1
    /\ last.raised = "AssertionError"

\* C7 as stated: a construction of AddGaussianNoise around any iterator
\* succeeds when every configured name is among the data names of the
\* wrapped iterator (the means, when given, being for the names of
\* std_dict), and any construction that fails raises a validation error and
\* constructs nothing.
C7_AnyIteratorCanBeWrapped ==
    last.op = "AddGaussianNoise" =>
        /\ (/\ DOMAIN last.std \subseteq iters[last.w].data_names
            /\ last.mean_given => DOMAIN last.mean = DOMAIN last.std)
              => last.raised = "none"
        /\ last.raised /= "none"
              => /\ last.raised = "IteratorValidationError"
                 /\ Len(iters) = last.w

====
